---- MODULE Spec2Model ----
(***************************************************************************)
(* Model of the plan-then-execute loop of client-api.py (run_agent) and of *)
(* the MCP tools of server.py it calls.  One request is followed from the  *)
(* planner call to its response; the atomic steps are the stretches of     *)
(* run_agent between two awaits.                                           *)
(***************************************************************************)
EXTENDS Integers, Sequences, FiniteSets, TLC

\* Longest task list the planner returns in the model.
MaxTasks == 2

----------------------------------------------------------------------------
(* JSON / Python values.  An object is a total function over Keys whose    *)
(* missing keys hold Absent.                                               *)

Keys == {"tasks", "action", "params", "query", "mode", "id", "name", "result", "error"}

Absent == [t |-> "absent"]
JNull == [t |-> "null"]
JBool(b) == [t |-> "bool", b |-> b]
JNum(n) == [t |-> "num", n |-> n]
JStr(s) == [t |-> "str", s |-> s]
JList(l) == [t |-> "list", l |-> l]
Obj(r) == [t |-> "obj", o |-> [k \in Keys |-> IF k \in DOMAIN r THEN r[k] ELSE Absent]]
EmptyObj == Obj(<<>>)

IsDict(v) == v.t = "obj"
IsStr(v) == v.t = "str"

\* Python truthiness (bool(v)).
Truthy(v) ==
    CASE v.t = "null" -> FALSE
      [] v.t = "bool" -> v.b
      [] v.t = "num" -> v.n # 0
      [] v.t = "str" -> v.s # ""
      [] v.t = "list" -> Len(v.l) > 0
      [] v.t = "obj" -> \E k \in Keys : v.o[k] # Absent

\* dict.get(k, default); the caller checks IsDict first.
Get(v, k, default) == IF v.o[k] # Absent THEN v.o[k] ELSE default

\* Python `a or b`.
Or(a, b) == IF Truthy(a) THEN a ELSE b

\* What `for x in v` iterates over, for the iterable JSON values.  A string
\* yields its characters and a dict its keys: strings in both cases, and the
\* loop ends at the first of them, so one stands for all.
IsIterable(v) == v.t \in {"list", "str", "obj"}
Iterate(v) ==
    CASE v.t = "list" -> v.l
      [] v.t = "str" -> IF v.s = "" THEN <<>> ELSE <<JStr(v.s)>>
      [] v.t = "obj" -> IF Truthy(v) THEN <<JStr("key")>> ELSE <<>>

----------------------------------------------------------------------------
(* json.loads / json.dumps on the texts the model uses.                    *)

JsonTexts == {"{\"id\":1}", "{\"id\": 1}", "{}", "0", "false", "null", "\"\"", "[]",
              "{\"error\": 1}", "{\"result\": []}"}

IsJson(s) == s \in JsonTexts

JsonLoads(s) ==
    CASE s = "{\"id\":1}" -> Obj([id |-> JNum(1)])
      [] s = "{\"id\": 1}" -> Obj([id |-> JNum(1)])
      [] s = "{}" -> EmptyObj
      [] s = "0" -> JNum(0)
      [] s = "false" -> JBool(FALSE)
      [] s = "null" -> JNull
      [] s = "\"\"" -> JStr("")
      [] s = "[]" -> JList(<<>>)
      [] s = "{\"error\": 1}" -> Obj([error |-> JNum(1)])
      [] s = "{\"result\": []}" -> Obj([result |-> JList(<<>>)])

JsonDumps(v) ==
    CASE v = Obj([id |-> JNum(1)]) -> "{\"id\": 1}"
      [] v = EmptyObj -> "{}"
      [] v = JNum(0) -> "0"
      [] v = JBool(FALSE) -> "false"
      [] v = JNull -> "null"
      [] v = JStr("") -> "\"\""
      [] v = JList(<<>>) -> "[]"
      [] v = Obj([error |-> JNum(1)]) -> "{\"error\": 1}"
      [] v = Obj([result |-> JList(<<>>)]) -> "{\"result\": []}"

----------------------------------------------------------------------------
(* server.py: the tools.  Each takes the upstream answer(s) of its REST     *)
(* call and either returns a text or raises.                               *)

ConnFail == [kind |-> "connfail"]
Http(ok, body) == [kind |-> "http", ok |-> ok, body |-> body]

Upstream ==
    {ConnFail}
    \cup {Http(TRUE, b) : b \in {"{\"id\":1}", "{}", "0", "<html>"}}
    \cup {Http(FALSE, b) : b \in {"Not Found", "{\"error\": 1}"}}

Raise == [kind |-> "raise"]
Return(text) == [kind |-> "return", text |-> text]

\* len(x) is defined for strings, lists and dicts only.
HasLen(v) == v.t \in {"str", "list", "obj"}

create_property(up) ==
    IF up.kind = "connfail" THEN Raise
    ELSE IF ~up.ok THEN Return(up.body)
    ELSE IF ~IsJson(up.body) THEN Raise
    ELSE Return(JsonDumps(JsonLoads(up.body)))

\* Variant: the error branch returns an empty JSON object, not the body.
update_property_price_NoBody(up) ==
    IF up.kind = "connfail" THEN Raise
    ELSE IF ~up.ok THEN Return("{}")
    ELSE IF ~IsJson(up.body) THEN Raise
    ELSE Return(JsonDumps(JsonLoads(up.body)))

update_property_price(up) ==
    IF up.kind = "connfail" THEN Raise
    ELSE IF ~up.ok THEN Return(up.body)
    ELSE IF ~IsJson(up.body) THEN Raise
    ELSE Return(JsonDumps(JsonLoads(up.body)))

get_properties(up) ==
    IF up.kind = "connfail" THEN Raise
    ELSE IF ~up.ok THEN Raise
    ELSE IF ~IsJson(up.body) THEN Raise
    ELSE LET data == JsonLoads(up.body) IN
         IF ~IsDict(data) THEN Raise
         ELSE IF ~HasLen(Get(data, "result", data)) THEN Raise
         ELSE Return(JsonDumps(data))

get_chart(up1, up2) ==
    IF up1.kind = "connfail" THEN Raise
    ELSE IF ~up1.ok THEN Raise
    ELSE IF ~IsJson(up1.body) THEN Raise
    ELSE IF ~IsDict(JsonLoads(up1.body)) THEN Raise
    ELSE IF up2.kind = "connfail" THEN Raise
    ELSE IF ~up2.ok THEN Raise
    ELSE IF ~IsJson(up2.body) THEN Raise
    ELSE Return(JsonDumps(JsonLoads(up2.body)))

create_trello_card(up) ==
    IF up.kind = "connfail" THEN Raise
    ELSE IF ~up.ok THEN Raise
    ELSE Return("Card created: u")

\* Only get_chart asks upstream twice.
SecondUpstream(action) == IF action = JStr("get_chart") THEN Upstream ELSE {ConnFail}

\* The tool ran and an upstream call of it answered with an HTTP error status.
HttpError(up) == up.kind = "http" /\ ~up.ok
UpstreamError(action, up1, up2) ==
    CASE action \in {JStr("create_property"), JStr("update_property_price"),
                     JStr("get_properties"), JStr("create_trello_card")} -> HttpError(up1)
      [] action = JStr("get_chart") ->
            \/ HttpError(up1)
            \/ /\ up1.kind = "http" /\ up1.ok /\ IsJson(up1.body)
               /\ IsDict(JsonLoads(up1.body)) /\ HttpError(up2)
      [] OTHER -> FALSE

\* The tool the server runs for an action name; a name that is not
\* registered has no tool and the call fails.
RunTool(action, up1, up2) ==
    CASE action = JStr("create_property") -> create_property(up1)
      [] action = JStr("update_property_price") -> update_property_price(up1)
      [] action = JStr("get_properties") -> get_properties(up1)
      [] action = JStr("get_chart") -> get_chart(up1, up2)
      [] action = JStr("create_trello_card") -> create_trello_card(up1)
      [] OTHER -> Raise

----------------------------------------------------------------------------
(* client-api.py: what the planner and the transport can hand to run_agent. *)

A_get_properties == JStr("get_properties")
A_get_chart == JStr("get_chart")
A_create_trello_card == JStr("create_trello_card")
A_update_property_price == JStr("update_property_price")
A_create_property == JStr("create_property")

Task(a, p) == Obj([action |-> a, params |-> p])

TaskUniverse ==
    {Task(A_get_properties, p) : p \in {JStr("q"), Obj([query |-> JStr("q")]), JStr("")}}
    \cup {Task(A_get_chart, p) : p \in {JStr("q"), JStr("")}}
    \cup {Task(A_create_trello_card, p) :
                  p \in {Obj([name |-> JStr("n")]), Obj([mode |-> JStr("per_item")]),
                         Obj([mode |-> JStr("")]), JStr("q")}}
    \cup {Task(A_update_property_price, Obj([id |-> JNum(1)]))}
    \cup {Task(A_create_property, Obj([name |-> JStr("n")]))}
    \cup {Task(JStr("frobnicate"), EmptyObj), Obj([params |-> EmptyObj]), JNum(1)}

TaskLists == UNION {[1..n -> TaskUniverse] : n \in 0..MaxTasks}

PlannerFails == [kind |-> "raise", json |-> FALSE, value |-> Absent]
PlanText(isjson, v) == [kind |-> "text", json |-> isjson, value |-> v]

\* The JSON values a plan text can parse to: well-formed plans and the
\* malformed shapes (no tasks key, tasks not a list, not an object).
PlanValues ==
    {Obj([tasks |-> JList(l)]) : l \in TaskLists}
    \cup {EmptyObj, Obj([result |-> JList(<<>>)])}
    \cup {Obj([tasks |-> t]) : t \in {JNull, JNum(1), JStr("x")}}
    \cup {JList(<<>>), JNum(1), JNull}

PlannerOutputs ==
    {PlannerFails, PlanText(FALSE, Absent)} \cup {PlanText(TRUE, v) : v \in PlanValues}

Categories == {"properties", "chart", "cards", "updates", "created"}

----------------------------------------------------------------------------
VARIABLES
    planner,    \* history: what the planner call produced (Absent before it ends)
    pc,         \* where run_agent is: start, await_plan, await_session,
                \* await_call, done, planning_error, error
    plan,       \* the parsed plan (Absent before parsing)
    state,      \* the aggregate of line 95 (Absent before it is created)
    session,    \* none, open, closed
    opens,      \* how many times a session was opened in this request
    idx,        \* position of the current task in the task list
    action,     \* action of the current task
    params,     \* params of the current task, after defaulting and coercion
    calls,      \* history: the call_tool invocations issued, in order
    outcomes,   \* history: how each invocation ended, in order
    response,   \* the returned dict (Absent while there is none)
    cur,        \* the request whose coroutine the event loop is running
    parked      \* the locals of the requests suspended at an await

vars == <<planner, pc, plan, state, session, opens, idx, action, params, calls, outcomes, response,
          cur, parked>>

Init ==
    /\ planner = Absent
    /\ pc = "start"
    /\ plan = Absent
    /\ state = Absent
    /\ session = "none"
    /\ opens = 0
    /\ idx = 0
    /\ action = Absent
    /\ params = Absent
    /\ calls = <<>>
    /\ outcomes = <<>>
    /\ response = Absent
    /\ cur = 1
    /\ parked = <<>>

InitialState ==
    [properties |-> JNull, chart |-> JNull, cards |-> JList(<<>>),
     updates |-> JList(<<>>), created |-> JList(<<>>)]

\* Line 134: keep the categories whose value is truthy.
BuildResponse(st) == [k \in Categories |-> IF Truthy(st[k]) THEN st[k] ELSE Absent]

\* Variant: no `async with`; an exception leaves the session as it is.
Crash_Leak(st) ==
    /\ pc' = "error"
    /\ session' = session
    /\ state' = st
    /\ UNCHANGED <<idx, action, params, calls, response>>

\* An exception nobody catches leaves the two `async with` blocks (the
\* session is torn down) and ends the request without a response.
Crash(st) ==
    /\ pc' = "error"
    /\ session' = "closed"
    /\ state' = st
    /\ UNCHANGED <<idx, action, params, calls, response>>

\* The loop is over: the session is torn down and the response returned.
Finish(st) ==
    /\ pc' = "done"
    /\ session' = "closed"
    /\ state' = st
    /\ response' = BuildResponse(st)
    /\ UNCHANGED <<idx, action, params, calls>>

\* Lines 102-110: take the task's action and params, coerce a bare string
\* of a query-style action, and issue the call.
ParamsOf(task) == Or(Get(task, "params", EmptyObj), EmptyObj)
Coerce(a, p) ==
    IF a \in {A_get_properties, A_get_chart} /\ IsStr(p) THEN Obj([query |-> p]) ELSE p
ArgsOf(task) == Coerce(Get(task, "action", JNull), ParamsOf(task))

Dispatch(i, task, st) ==
    /\ idx' = i
    /\ action' = Get(task, "action", JNull)
    /\ params' = ArgsOf(task)
    /\ calls' = Append(calls, [idx |-> i, action |-> Get(task, "action", JNull),
                               args |-> ArgsOf(task)])
    /\ pc' = "await_call"
    /\ session' = "open"
    /\ state' = st
    /\ UNCHANGED response

\* Line 101 onwards: iteration i of `for task in plan.get("tasks", [])`.
Loop(i, st) ==
    IF ~IsDict(plan) THEN Crash(st)
    ELSE LET t == Get(plan, "tasks", JList(<<>>)) IN
         IF ~IsIterable(t) THEN Crash(st)
         ELSE IF i > Len(Iterate(t)) THEN Finish(st)
         ELSE IF ~IsDict(Iterate(t)[i]) THEN Crash(st)
         ELSE Dispatch(i, Iterate(t)[i], st)

\* Lines 116-124: join the chunks' text, then json.loads with a fallback
\* to the raw string.
\* Line 118, per chunk: its text, else its content, else its str().
ChunkText(i) ==
    IF "text" \in DOMAIN i THEN i.text
    ELSE IF "content" \in DOMAIN i THEN i.content
    ELSE "<chunk>"

RECURSIVE JoinText(_)
JoinText(items) ==
    IF items = <<>> THEN "" ELSE ChunkText(Head(items)) \o JoinText(Tail(items))

\* The content lists call_tool can hand back for a text the tool returned:
\* the text as one chunk, or cut into two chunks.
Contents(text) ==
    {<<[text |-> text]>>}
    \cup (CASE text = "{\"id\": 1}" -> {<<[text |-> "{\"id\""], [text |-> ": 1}"]>>}
            [] text = "Not Found" -> {<<[text |-> "Not "], [text |-> "Found"]>>}
            [] OTHER -> {})

\* Variant: the joined text is stored as it is, never parsed.
Normalize_NoParse(items) == JStr(JoinText(items))

Normalize(items) ==
    IF IsJson(JoinText(items)) THEN JsonLoads(JoinText(items)) ELSE JStr(JoinText(items))

\* Lines 127-131: the elif chain.  The create_trello_card test calls
\* params.get, which only a dict has.
FoldRaises(a, p) == a = A_create_trello_card /\ ~IsDict(p)

\* Variant: a list category takes a payload only if it does not hold it yet.
Fold_Dedup(a, p, obj, st) ==
    IF a = A_get_properties THEN [st EXCEPT !.properties = obj]
    ELSE IF a = A_get_chart THEN [st EXCEPT !.chart = obj]
    ELSE IF a = A_create_trello_card /\ ~Truthy(Get(p, "mode", JNull))
         THEN (IF \E j \in 1..Len(st.cards.l) : st.cards.l[j] = obj THEN st
               ELSE [st EXCEPT !.cards = JList(Append(st.cards.l, obj))])
    ELSE IF a = A_update_property_price
         THEN (IF \E j \in 1..Len(st.updates.l) : st.updates.l[j] = obj THEN st
               ELSE [st EXCEPT !.updates = JList(Append(st.updates.l, obj))])
    ELSE IF a = A_create_property
         THEN (IF \E j \in 1..Len(st.created.l) : st.created.l[j] = obj THEN st
               ELSE [st EXCEPT !.created = JList(Append(st.created.l, obj))])
    ELSE st

\* Variant: the mode of a create_trello_card task is not looked at.
Fold_IgnoreMode(a, p, obj, st) ==
    IF a = A_get_properties THEN [st EXCEPT !.properties = obj]
    ELSE IF a = A_get_chart THEN [st EXCEPT !.chart = obj]
    ELSE IF a = A_create_trello_card
         THEN [st EXCEPT !.cards = JList(Append(st.cards.l, obj))]
    ELSE IF a = A_update_property_price
         THEN [st EXCEPT !.updates = JList(Append(st.updates.l, obj))]
    ELSE IF a = A_create_property
         THEN [st EXCEPT !.created = JList(Append(st.created.l, obj))]
    ELSE st

\* Variant: only the mode "batch" keeps a card out of `cards`.
Fold_BatchOnly(a, p, obj, st) ==
    IF a = A_get_properties THEN [st EXCEPT !.properties = obj]
    ELSE IF a = A_get_chart THEN [st EXCEPT !.chart = obj]
    ELSE IF a = A_create_trello_card /\ Get(p, "mode", JNull) # JStr("batch")
         THEN [st EXCEPT !.cards = JList(Append(st.cards.l, obj))]
    ELSE IF a = A_update_property_price
         THEN [st EXCEPT !.updates = JList(Append(st.updates.l, obj))]
    ELSE IF a = A_create_property
         THEN [st EXCEPT !.created = JList(Append(st.created.l, obj))]
    ELSE st

Fold(a, p, obj, st) ==
    IF a = A_get_properties THEN [st EXCEPT !.properties = obj]
    ELSE IF a = A_get_chart THEN [st EXCEPT !.chart = obj]
    ELSE IF a = A_create_trello_card /\ ~Truthy(Get(p, "mode", JNull))
         THEN [st EXCEPT !.cards = JList(Append(st.cards.l, obj))]
    ELSE IF a = A_update_property_price
         THEN [st EXCEPT !.updates = JList(Append(st.updates.l, obj))]
    ELSE IF a = A_create_property
         THEN [st EXCEPT !.created = JList(Append(st.created.l, obj))]
    ELSE st

----------------------------------------------------------------------------
(* The steps of run_agent.                                                 *)

\* Lines 80-87: the request arrives and the planner is called.
Start ==
    /\ pc = "start"
    /\ pc' = "await_plan"
    /\ UNCHANGED <<planner, plan, state, session, opens, idx, action, params, calls, outcomes, response>>
    /\ UNCHANGED <<cur, parked>>

\* Variant: a failed planning is taken for an empty plan and the request goes on.
PlanningFails_Recover ==
    /\ pc = "await_plan"
    /\ \E out \in PlannerOutputs :
          /\ out.kind = "raise" \/ ~out.json
          /\ planner' = out
    /\ plan' = EmptyObj
    /\ state' = InitialState
    /\ pc' = "await_session"
    /\ UNCHANGED <<session, opens, idx, action, params, calls, outcomes, response>>
    /\ UNCHANGED <<cur, parked>>

\* Lines 87-92: the planner raised, or its text is not JSON.
PlanningFails ==
    /\ pc = "await_plan"
    /\ \E out \in PlannerOutputs :
          /\ out.kind = "raise" \/ ~out.json
          /\ planner' = out
          /\ pc' = "planning_error"
    /\ UNCHANGED <<plan, state, session, opens, idx, action, params, calls, outcomes, response>>
    /\ UNCHANGED <<cur, parked>>

\* Lines 87-96: the text parsed; the aggregate is created and the
\* transport is being set up.
Planned ==
    /\ pc = "await_plan"
    /\ \E out \in PlannerOutputs :
          /\ out.kind = "text" /\ out.json
          /\ planner' = out
          /\ plan' = out.value
    /\ state' = InitialState
    /\ pc' = "await_session"
    /\ UNCHANGED <<session, opens, idx, action, params, calls, outcomes, response>>
    /\ UNCHANGED <<cur, parked>>

\* Lines 96-99 fail: the server process or the handshake raises.
SessionFails ==
    /\ pc = "await_session"
    /\ pc' = "error"
    /\ session' = "closed"
    /\ opens' = opens + 1
    /\ UNCHANGED <<planner, plan, state, idx, action, params, calls, outcomes, response>>
    /\ UNCHANGED <<cur, parked>>

\* Lines 96-101: the session is up and the loop starts.
SessionReady ==
    /\ pc = "await_session"
    /\ opens' = opens + 1
    /\ Loop(1, state)
    /\ UNCHANGED <<planner, plan, outcomes>>
    /\ UNCHANGED <<cur, parked>>

\* Variant: no try/except around call_tool; the exception ends the request.
CallRaises_Abort ==
    /\ pc = "await_call"
    /\ \E up1 \in Upstream, up2 \in SecondUpstream(action) :
          outcomes' = Append(outcomes, [ok |-> FALSE, obj |-> Absent, content |-> <<>>,
                                        httperr |-> UpstreamError(action, up1, up2)])
    /\ Crash(state)
    /\ UNCHANGED <<planner, plan, opens>>
    /\ UNCHANGED <<cur, parked>>

\* Variant: the failed task is issued again instead of being skipped.
CallRaises_Retry ==
    /\ pc = "await_call"
    /\ \E up1 \in Upstream, up2 \in SecondUpstream(action) :
          outcomes' = Append(outcomes, [ok |-> FALSE, obj |-> Absent, content |-> <<>>,
                                        httperr |-> UpstreamError(action, up1, up2)])
    /\ Len(calls) < MaxTasks + 1
    /\ Loop(idx, state)
    /\ UNCHANGED <<planner, plan, opens>>
    /\ UNCHANGED <<cur, parked>>

\* Lines 110-113: call_tool raised (the tool raised, or the transport
\* did); the task is skipped.
CallRaises ==
    /\ pc = "await_call"
    /\ \E up1 \in Upstream, up2 \in SecondUpstream(action) :
          outcomes' = Append(outcomes, [ok |-> FALSE, obj |-> Absent, content |-> <<>>,
                                        httperr |-> UpstreamError(action, up1, up2)])
    /\ Loop(idx + 1, state)
    /\ UNCHANGED <<planner, plan, opens>>
    /\ UNCHANGED <<cur, parked>>

\* Lines 110-131: call_tool returned what the tool produced; the result is
\* normalized and folded, and the loop goes on.
CallReturns ==
    /\ pc = "await_call"
    /\ \E up1 \in Upstream, up2 \in SecondUpstream(action) :
          LET r == RunTool(action, up1, up2) IN
          /\ r.kind = "return"
          /\ \E content \in Contents(r.text) :
             LET obj == Normalize(content) IN
             /\ outcomes' = Append(outcomes, [ok |-> TRUE, obj |-> obj, content |-> content,
                                              httperr |-> UpstreamError(action, up1, up2)])
             /\ IF FoldRaises(action, params) THEN Crash(state)
                ELSE Loop(idx + 1, Fold(action, params, obj, state))
    /\ UNCHANGED <<planner, plan, opens>>
    /\ UNCHANGED <<cur, parked>>

Next ==
    \/ Start
    \/ PlanningFails
    \/ Planned
    \/ SessionReady
    \/ SessionFails
    \/ CallRaises
    \/ CallReturns

Spec == Init /\ [][Next]_vars

\* The planner, the transport set-up and every call_tool end (by returning
\* or by raising), and the event loop resumes a coroutine that can go on.
SpecFair == Spec /\ WF_vars(Next)

----------------------------------------------------------------------------
(* Several requests on one event loop.  Every name of the handler body is *)
(* a local of the coroutine (lines 81-134), so a suspended request keeps  *)
(* its own copy; the module-level names (SERVER_CMD, PLANNER, PREFIX) are *)
(* only read.  The variables above hold the locals of the running request. *)

NumRequests == 2

Requests == 1..NumRequests

\* The locals of the running coroutine.
Locals ==
    [planner |-> planner, pc |-> pc, plan |-> plan, state |-> state,
     session |-> session, opens |-> opens, idx |-> idx, action |-> action,
     params |-> params, calls |-> calls, outcomes |-> outcomes,
     response |-> response]

\* The locals of a request that has not started.
FreshLocals ==
    [planner |-> Absent, pc |-> "start", plan |-> Absent, state |-> Absent,
     session |-> "none", opens |-> 0, idx |-> 0, action |-> Absent,
     params |-> Absent, calls |-> <<>>, outcomes |-> <<>>,
     response |-> Absent]

\* The planner outputs of the requests that run together: a planner
\* failure and two plans.
ConcPlannerOutputs ==
    { PlannerFails,
      PlanText(TRUE, Obj([tasks |-> JList(<<Task(A_update_property_price,
                                                 Obj([id |-> JNum(1)]))>>)])),
      PlanText(TRUE, Obj([tasks |-> JList(<<Task(A_get_properties, JStr("q"))>>)])) }

InitConc ==
    /\ planner = Absent
    /\ pc = "start"
    /\ plan = Absent
    /\ state = Absent
    /\ session = "none"
    /\ opens = 0
    /\ idx = 0
    /\ action = Absent
    /\ params = Absent
    /\ calls = <<>>
    /\ outcomes = <<>>
    /\ response = Absent
    /\ cur = 1
    /\ parked = [r \in Requests \ {1} |-> FreshLocals]

\* Whether a suspended request can be resumed: it has not returned and what
\* it awaits is not a call that never ends.
Ready(c) == c.pc \notin {"done", "planning_error", "error", "hung"}

\* Variant: the aggregate is one module-level object, not a local.
Switch_SharedState(j) ==
    /\ pc # "start"
    /\ j \in DOMAIN parked
    /\ Ready(parked[j])
    /\ parked' = [r \in (DOMAIN parked \ {j}) \cup {cur} |->
                     IF r = cur THEN Locals ELSE parked[r]]
    /\ cur' = j
    /\ planner' = parked[j].planner
    /\ pc' = parked[j].pc
    /\ plan' = parked[j].plan
    /\ state' = state
    /\ session' = parked[j].session
    /\ opens' = parked[j].opens
    /\ idx' = parked[j].idx
    /\ action' = parked[j].action
    /\ params' = parked[j].params
    /\ calls' = parked[j].calls
    /\ outcomes' = parked[j].outcomes
    /\ response' = parked[j].response

\* Variant: a call that never ends does not yield to the event loop.
Switch_Blocking(j) ==
    /\ pc \notin {"start", "hung"}
    /\ j \in DOMAIN parked
    /\ Ready(parked[j])
    /\ parked' = [r \in (DOMAIN parked \ {j}) \cup {cur} |->
                     IF r = cur THEN Locals ELSE parked[r]]
    /\ cur' = j
    /\ planner' = parked[j].planner
    /\ pc' = parked[j].pc
    /\ plan' = parked[j].plan
    /\ state' = parked[j].state
    /\ session' = parked[j].session
    /\ opens' = parked[j].opens
    /\ idx' = parked[j].idx
    /\ action' = parked[j].action
    /\ params' = parked[j].params
    /\ calls' = parked[j].calls
    /\ outcomes' = parked[j].outcomes
    /\ response' = parked[j].response

\* Lines 87, 96-99, 110: the running coroutine is at an await (or has
\* returned) and the event loop resumes request j with j's own locals.
Switch(j) ==
    /\ pc # "start"
    /\ j \in DOMAIN parked
    /\ Ready(parked[j])
    /\ parked' = [r \in (DOMAIN parked \ {j}) \cup {cur} |->
                     IF r = cur THEN Locals ELSE parked[r]]
    /\ cur' = j
    /\ planner' = parked[j].planner
    /\ pc' = parked[j].pc
    /\ plan' = parked[j].plan
    /\ state' = parked[j].state
    /\ session' = parked[j].session
    /\ opens' = parked[j].opens
    /\ idx' = parked[j].idx
    /\ action' = parked[j].action
    /\ params' = parked[j].params
    /\ calls' = parked[j].calls
    /\ outcomes' = parked[j].outcomes
    /\ response' = parked[j].response

\* Line 110: the awaited call_tool never ends (no timeout is set).
CallHangs ==
    /\ pc = "await_call"
    /\ pc' = "hung"
    /\ UNCHANGED <<planner, plan, state, session, opens, idx, action, params, calls, outcomes,
                   response, cur, parked>>

ConcPlanningFails == PlanningFails /\ planner' \in ConcPlannerOutputs

ConcPlanned == Planned /\ planner' \in ConcPlannerOutputs

\* A step of the running request whose awaited operation ended.
Step ==
    \/ Start
    \/ ConcPlanningFails
    \/ ConcPlanned
    \/ SessionReady
    \/ SessionFails
    \/ CallRaises
    \/ CallReturns

NextConc ==
    \/ Start
    \/ ConcPlanningFails
    \/ ConcPlanned
    \/ SessionReady
    \/ SessionFails
    \/ CallRaises
    \/ CallReturns
    \/ CallHangs
    \/ \E j \in Requests : Switch(j)

SpecConc == InitConc /\ [][NextConc]_vars

\* The event loop resumes every coroutine that is ready (its ready queue
\* is first in, first out), and a resumed coroutine whose awaited
\* operation ended runs to its next await.
SpecConcFair ==
    /\ SpecConc
    /\ \A r \in Requests : SF_vars(cur = r /\ Step)
    /\ \A r \in Requests : SF_vars(Switch(r))

----------------------------------------------------------------------------
(* Properties.                                                             *)

\* The task list the loop iterates over (empty when there is none).
Tasks ==
    IF plan # Absent /\ IsDict(plan) /\ IsIterable(Get(plan, "tasks", JList(<<>>)))
    THEN Iterate(Get(plan, "tasks", JList(<<>>))) ELSE <<>>
NTasks == Len(Tasks)

PlanningFailed == planner # Absent /\ (planner.kind = "raise" \/ ~planner.json)

\* C1: when the planner call fails or its text is not JSON, the request
\* ends with the planning error; no session was opened, no tool was
\* invoked, no aggregate exists and no response is returned.
C1_ParseBeforeExecute ==
    PlanningFailed =>
        /\ pc = "planning_error"
        /\ session = "none" /\ opens = 0
        /\ calls = <<>> /\ outcomes = <<>>
        /\ state = Absent /\ response = Absent

C1_Witness ==
    /\ planner # Absent /\ planner.kind = "text" /\ ~planner.json
    /\ pc = "planning_error"

MissingTasks ==
    /\ planner # Absent /\ planner.json
    /\ IsDict(planner.value) /\ planner.value.o["tasks"] = Absent

\* C2: a plan text that is valid JSON without a `tasks` key ends the request
\* with the planning error: it never yields a response, and no session is
\* opened and no tool invoked for it.
C2_MissingTasksRejected ==
    MissingTasks =>
        /\ pc # "done" /\ response = Absent
        /\ pc \in {"done", "error", "planning_error"} => pc = "planning_error"
        /\ calls = <<>>

\* The aggregate obtained by folding the invocations that returned, in
\* order, leaving out the ones that failed.
RECURSIVE Replay(_)
Replay(k) ==
    IF k = 0 THEN InitialState
    ELSE IF outcomes[k].ok
         THEN Fold(calls[k].action, calls[k].args, outcomes[k].obj, Replay(k - 1))
         ELSE Replay(k - 1)

\* A task as section 3 of the spec types it: an object whose params are an
\* object (or missing, or null), or a bare string for a query-style action.
WellFormedTask(t) ==
    /\ IsDict(t)
    /\ \/ t.o["params"].t \in {"absent", "null", "obj"}
       \/ /\ t.o["params"].t = "str"
          /\ t.o["action"] \in {A_get_properties, A_get_chart}
WellFormedPlan ==
    /\ plan # Absent /\ IsDict(plan) /\ Get(plan, "tasks", JList(<<>>)).t = "list"
    /\ \A k \in 1..NTasks : WellFormedTask(Tasks[k])

\* C3: a failing invocation skips only its own task: the next task of the
\* plan is invoked after it and no failure ends the request, the aggregate
\* is what the succeeding invocations alone fold to, and the response
\* returned at the end is built from that aggregate, after every task was
\* invoked.
C3_PartialFailureTolerance ==
    /\ \A k \in 1..Len(outcomes) :
          (~outcomes[k].ok /\ k < NTasks /\ IsDict(Tasks[k + 1])) =>
              /\ Len(calls) >= k + 1 /\ calls[k + 1].idx = k + 1
    /\ (WellFormedPlan /\ pc = "error") => calls = <<>>
    /\ pc \in {"await_call", "done"} => state = Replay(Len(outcomes))
    /\ pc = "done" =>
          /\ Len(calls) = NTasks /\ Len(outcomes) = NTasks
          /\ response = BuildResponse(Replay(NTasks))

\* A failing update_property_price followed by a succeeding create_property:
\* the response has `created` only.
C3_Witness ==
    /\ pc = "done" /\ Len(outcomes) = 2
    /\ calls[1].action = A_update_property_price /\ ~outcomes[1].ok
    /\ calls[2].action = A_create_property /\ outcomes[2].ok
    /\ response.updates = Absent
    /\ response.created = JList(<<outcomes[2].obj>>)
    /\ \A c \in Categories \ {"created"} : response[c] = Absent

\* C4: the k-th invocation issued is for the k-th task of the plan, an
\* invocation is issued only when all earlier ones have returned or failed,
\* and at most one invocation is outstanding.
C4_SequentialInPlanOrder ==
    /\ Len(calls) - Len(outcomes) \in {0, 1}
    /\ (Len(calls) - Len(outcomes) = 1) <=> (pc = "await_call")
    /\ \A k \in 1..Len(calls) :
          /\ k <= NTasks
          /\ calls[k].idx = k
          /\ calls[k].action = Get(Tasks[k], "action", JNull)
          /\ calls[k].args = ArgsOf(Tasks[k])

\* The second invocation is outstanding after the first one has ended.
C4_Witness ==
    /\ pc = "await_call" /\ Len(calls) = 2 /\ Len(outcomes) = 1
    /\ calls[2].action # calls[1].action

\* C5: whenever the planner's text parses as JSON, the request does not end
\* in a request-level error: it ends with a response.
C5_OnlyPlanningFails ==
    (planner # Absent /\ planner.json) => pc # "error"

\* The payloads an HTTP error answer of the upstream normalizes to.
ErrorPayloads ==
    {Normalize(<<[text |-> up.body]>>) : up \in {u \in Upstream : HttpError(u)}}

\* How many of the first k invocations were for action a and returned.
CountOk(k, a) == Cardinality({j \in 1..k : calls[j].action = a /\ outcomes[j].ok})

ListCategory(a) == IF a = A_update_property_price THEN "updates" ELSE "created"

\* C6 as stated: an update_property_price or create_property invocation
\* whose upstream call answered with an HTTP error status fails, and
\* `updates` / `created` hold no entry for it.
C6_RemoteErrorRecordsNothing ==
    \A k \in 1..Len(outcomes) :
        (calls[k].action \in {A_update_property_price, A_create_property}
            /\ outcomes[k].httperr) =>
            /\ ~outcomes[k].ok
            /\ Len(state[ListCategory(calls[k].action)].l) =
                  Cardinality({j \in 1..Len(outcomes) :
                      /\ calls[j].action = calls[k].action
                      /\ outcomes[j].ok /\ ~outcomes[j].httperr})

\* C6, amended: when the upstream call behind update_property_price or
\* create_property answers with an HTTP error status and the invocation
\* returns, the payload is the error response body (parsed if it is JSON),
\* it is appended to `updates` / `created` at the task's place, and the
\* response returned at the end contains that category.
C6_RemoteErrorBodyRecorded ==
    \A k \in 1..Len(outcomes) :
        (calls[k].action \in {A_update_property_price, A_create_property}
            /\ outcomes[k].httperr /\ outcomes[k].ok) =>
            LET c == ListCategory(calls[k].action)
                n == CountOk(k, calls[k].action)
            IN /\ outcomes[k].obj \in ErrorPayloads
               /\ Len(state[c].l) >= n
               /\ state[c].l[n] = outcomes[k].obj
               /\ pc = "done" => response[c] = state[c]

C6_Witness ==
    /\ pc = "done" /\ Len(outcomes) = 1
    /\ calls[1].action = A_update_property_price
    /\ outcomes[1].httperr /\ outcomes[1].ok
    /\ response.updates = JList(<<JStr("Not Found")>>)

\* C7: a query-style task whose params is a bare string s is dispatched
\* with the arguments of the same task with params {query: s}.
C7_BareStringLikeObjectForm ==
    \A k \in 1..Len(calls) :
        LET a == Get(Tasks[k], "action", JNull)
            p == Tasks[k].o["params"]
        IN (a \in {A_get_properties, A_get_chart} /\ IsStr(p)) =>
              calls[k].args = ArgsOf(Task(a, Obj([query |-> p])))

\* Non-empty as the spec defines it: a scalar category holds a non-null
\* value, a list category a non-empty sequence.
NonEmpty(c, st) ==
    IF c \in {"properties", "chart"} THEN st[c] # JNull ELSE Len(st[c].l) > 0

\* C8: the response contains a category exactly when the category holds a
\* non-empty value at the end: non-null for properties and chart, a
\* non-empty sequence for cards, updates and created.
C8_ResponseHasNonEmptyCategories ==
    pc = "done" =>
        \A c \in Categories : (response[c] # Absent) <=> NonEmpty(c, state)

\* The category the action of a task implies ("none" for no category).
ImpliedCategory(t) ==
    LET a == Get(t, "action", JNull) IN
    CASE a = A_get_properties -> "properties"
      [] a = A_get_chart -> "chart"
      [] a = A_create_trello_card ->
            IF IsDict(ArgsOf(t)) /\ ~Truthy(Get(ArgsOf(t), "mode", JNull))
            THEN "cards" ELSE "none"
      [] a = A_update_property_price -> "updates"
      [] a = A_create_property -> "created"
      [] OTHER -> "none"

\* C9: when every invocation of a plan succeeded, the keys of the response
\* are exactly the categories the tasks' actions imply.
C9_KeysAreImpliedCategories ==
    (/\ pc = "done" /\ WellFormedPlan
     /\ \A k \in 1..Len(outcomes) : outcomes[k].ok) =>
        {c \in Categories : response[c] # Absent} =
            {ImpliedCategory(Tasks[k]) : k \in 1..NTasks} \ {"none"}

\* The payloads of the returned invocations of action a among the first k,
\* in order; with batch = FALSE the invocations whose params carry a truthy
\* mode are left out.
RECURSIVE Payloads(_, _, _)
Payloads(k, a, batch) ==
    IF k = 0 THEN <<>>
    ELSE IF /\ calls[k].action = a /\ outcomes[k].ok
            /\ (batch \/ ~Truthy(Get(calls[k].args, "mode", JNull)))
         THEN Append(Payloads(k - 1, a, batch), outcomes[k].obj)
         ELSE Payloads(k - 1, a, batch)

\* The payload of the last returned invocation of action a among the first
\* k (null when there is none).
RECURSIVE LastPayload(_, _)
LastPayload(k, a) ==
    IF k = 0 THEN JNull
    ELSE IF calls[k].action = a /\ outcomes[k].ok THEN outcomes[k].obj
    ELSE LastPayload(k - 1, a)

\* C10 as stated: at the end each list category holds the payloads of all
\* succeeding tasks of its action, in plan order and with repetitions, and
\* each scalar category the payload of the last succeeding task of its
\* action.
C10_FoldAllTasksOfAction ==
    pc = "done" =>
        /\ state.cards.l = Payloads(Len(outcomes), A_create_trello_card, TRUE)
        /\ state.updates.l = Payloads(Len(outcomes), A_update_property_price, TRUE)
        /\ state.created.l = Payloads(Len(outcomes), A_create_property, TRUE)
        /\ state.properties = LastPayload(Len(outcomes), A_get_properties)
        /\ state.chart = LastPayload(Len(outcomes), A_get_chart)

\* C10, amended: as stated, except that `cards` holds the payloads of the
\* succeeding create_trello_card tasks whose params carry no truthy mode.
C10_FoldSemantics ==
    pc = "done" =>
        /\ state.cards.l = Payloads(Len(outcomes), A_create_trello_card, FALSE)
        /\ state.updates.l = Payloads(Len(outcomes), A_update_property_price, TRUE)
        /\ state.created.l = Payloads(Len(outcomes), A_create_property, TRUE)
        /\ state.properties = LastPayload(Len(outcomes), A_get_properties)
        /\ state.chart = LastPayload(Len(outcomes), A_get_chart)

\* The same payload folded twice into `updates` is held twice.
C10_Witness ==
    /\ pc = "done" /\ Len(outcomes) = 2
    /\ calls[1].action = A_update_property_price /\ outcomes[1].ok
    /\ calls[2].action = A_update_property_price /\ outcomes[2].ok
    /\ outcomes[1].obj = outcomes[2].obj
    /\ state.updates.l = <<outcomes[1].obj, outcomes[1].obj>>

\* A step in which the outstanding invocation returns.
Returns == Len(outcomes') = Len(outcomes) + 1 /\ outcomes'[Len(outcomes')].ok

\* C11: a create_trello_card task whose params carry a (truthy) mode leaves
\* the whole aggregate, `cards` included, as it was when its invocation
\* returns.
C11_BatchCardNotFolded ==
    [][(/\ pc = "await_call" /\ action = A_create_trello_card
        /\ IsDict(params) /\ Truthy(Get(params, "mode", JNull))
        /\ Returns) => state' = state]_vars

C11_Witness ==
    /\ pc = "done" /\ Len(outcomes) = 1
    /\ calls[1].action = A_create_trello_card
    /\ Truthy(Get(calls[1].args, "mode", JNull))
    /\ outcomes[1].ok
    /\ state = InitialState /\ response.cards = Absent

\* What the claim says is stored for a content list: the chunks' texts
\* joined in order, parsed when the join is valid JSON, the join itself
\* otherwise.
RECURSIVE TextsInOrder(_, _)
TextsInOrder(items, n) ==
    IF n = 0 THEN "" ELSE TextsInOrder(items, n - 1) \o items[n].text

Stored(items) ==
    IF IsJson(TextsInOrder(items, Len(items)))
    THEN JsonLoads(TextsInOrder(items, Len(items)))
    ELSE JStr(TextsInOrder(items, Len(items)))

\* C12: the payload of every returned invocation is the join of its
\* chunks' texts, parsed if that is valid JSON and the raw string if not,
\* and that payload is what the aggregate holds for the task, also when the
\* join is not JSON (the task is folded, not skipped).
C12_ResultNormalization ==
    /\ \A k \in 1..Len(outcomes) :
          outcomes[k].ok => outcomes[k].obj = Stored(outcomes[k].content)
    /\ LET n == Len(outcomes) IN
       (n >= 1 /\ outcomes[n].ok /\ ~FoldRaises(calls[n].action, calls[n].args)) =>
          LET a == calls[n].action
              v == Stored(outcomes[n].content)
          IN CASE a = A_get_properties -> state.properties = v
               [] a = A_get_chart -> state.chart = v
               [] a = A_update_property_price ->
                     state.updates.l[Len(state.updates.l)] = v
               [] a = A_create_property ->
                     state.created.l[Len(state.created.l)] = v
               [] a = A_create_trello_card /\ ~Truthy(Get(calls[n].args, "mode", JNull)) ->
                     state.cards.l[Len(state.cards.l)] = v
               [] OTHER -> TRUE

\* Two chunks that join to JSON are stored parsed, two chunks that do not
\* are stored as the joined string.
C12_Witness ==
    /\ pc = "done" /\ Len(outcomes) = 2
    /\ outcomes[1].ok /\ Len(outcomes[1].content) = 2
    /\ outcomes[1].obj = Obj([id |-> JNum(1)])
    /\ state.updates = JList(<<Obj([id |-> JNum(1)])>>)
    /\ outcomes[2].ok /\ Len(outcomes[2].content) = 2
    /\ state.created = JList(<<JStr("Not Found")>>)

\* The five action names of the planning prompt and of the server.
Registered ==
    {A_get_properties, A_get_chart, A_create_trello_card,
     A_update_property_price, A_create_property}

\* C14: a task whose action is not one of the five registered names (or
\* is missing) is never dispatched to the transport.
C14_UnknownActionNotDispatched ==
    \A k \in 1..Len(calls) : calls[k].action \in Registered

Terminal == pc \in {"done", "planning_error", "error"}

\* C15: a session is opened at most once per request and only after the
\* plan text parsed; every invocation is issued and outstanding while the
\* session is open; an open session is eventually torn down, whether the
\* loop completes or an exception ends the request; once torn down the
\* session stays so and no invocation is issued.
C15_SessionLifecycle ==
    /\ [](/\ opens <= 1
          /\ opens = 1 => (planner # Absent /\ planner.json)
          /\ session # "none" => opens = 1
          /\ pc = "await_call" => session = "open"
          /\ Terminal => session # "open")
    /\ [][calls' # calls => session' = "open"]_vars
    /\ [][session = "closed" => (session' = "closed" /\ calls' = calls)]_vars
    /\ (session = "open") ~> (session = "closed")

\* The session is torn down after an exception raised during execution.
C15_Witness ==
    /\ pc = "error" /\ opens = 1 /\ session = "closed"
    /\ Len(calls) >= 1 /\ Len(outcomes) = Len(calls)

\* C16: no task is invoked twice (so a failed invocation is not issued
\* again), there are never more invocations than tasks, every request
\* ends, and once the loop of a plan of task objects runs the request
\* returns its response.
C16_NoRetryAndTermination ==
    /\ [](/\ Len(calls) <= NTasks
          /\ \A j \in 1..Len(calls), k \in 1..Len(calls) :
                j # k => calls[j].idx # calls[k].idx)
    /\ <>Terminal
    /\ (pc = "await_call" /\ WellFormedPlan) ~> (pc = "done")

\* Both tasks were invoked once, the first invocation failed, and the
\* response was returned.
C16_Witness ==
    /\ pc = "done" /\ NTasks = 2 /\ Len(calls) = 2
    /\ ~outcomes[1].ok /\ response # Absent

\* C18: when the invocation of a create_trello_card task returns, its
\* payload is appended to `cards` exactly if the params carry no truthy
\* mode ("per_item", the mode of the planning prompt's example, keeps it
\* out), and the invocation was issued with the task's params, mode
\* included.
C18_CardFoldedIffNoMode ==
    [][(/\ pc = "await_call" /\ action = A_create_trello_card
        /\ IsDict(params) /\ Returns) =>
          /\ calls[Len(calls)].args = ParamsOf(Tasks[idx])
          /\ calls[Len(calls)].args.o["mode"] = ParamsOf(Tasks[idx]).o["mode"]
          /\ state'.cards.l =
                IF Truthy(Get(params, "mode", JNull)) THEN state.cards.l
                ELSE Append(state.cards.l, outcomes'[Len(outcomes')].obj)]_vars

\* The prompt's own example task was invoked with its mode and is not in
\* `cards`; a card task without a mode is.
C18_Witness ==
    /\ pc = "done" /\ Len(outcomes) = 2
    /\ calls[1].action = A_create_trello_card /\ outcomes[1].ok
    /\ calls[1].args = Obj([mode |-> JStr("per_item")])
    /\ calls[2].action = A_create_trello_card /\ outcomes[2].ok
    /\ calls[2].args = Obj([name |-> JStr("n")])
    /\ state.cards = JList(<<outcomes[2].obj>>)
    /\ response.cards = state.cards

\* The locals of request r, running or suspended.
LocalsOf(r) == IF r = cur THEN Locals ELSE parked[r]

\* The task list of the plan of a request with locals c.
TasksOf(c) ==
    IF c.plan # Absent /\ IsDict(c.plan) /\ IsIterable(Get(c.plan, "tasks", JList(<<>>)))
    THEN Iterate(Get(c.plan, "tasks", JList(<<>>))) ELSE <<>>

\* The aggregate a request with locals c has after its first k invocations
\* when it runs alone: the fold of its own results over a fresh aggregate.
RECURSIVE ReplayOf(_, _)
ReplayOf(c, k) ==
    IF k = 0 THEN InitialState
    ELSE IF c.outcomes[k].ok
         THEN Fold(c.calls[k].action, c.calls[k].args, c.outcomes[k].obj, ReplayOf(c, k - 1))
         ELSE ReplayOf(c, k - 1)

\* C13: in every interleaving of the requests, each request opens one
\* session of its own, invokes the tasks of its own plan, holds the
\* aggregate that its own results fold to from a fresh one, and returns the
\* response built from that aggregate.
C13_RequestIsolation ==
    \A r \in Requests :
        LET c == LocalsOf(r) IN
        /\ c.opens <= 1
        /\ c.pc \in {"start", "await_plan", "planning_error"} =>
              c.state = Absent /\ c.opens = 0 /\ c.calls = <<>>
        /\ c.pc = "await_session" => c.state = InitialState /\ c.session = "none"
        /\ c.pc \in {"await_call", "hung"} => c.session = "open" /\ c.opens = 1
        /\ \A k \in 1..Len(c.calls) :
              /\ k <= Len(TasksOf(c))
              /\ c.calls[k].action = Get(TasksOf(c)[k], "action", JNull)
              /\ c.calls[k].args = ArgsOf(TasksOf(c)[k])
        /\ c.pc \in {"await_call", "hung", "done"} =>
              c.state = ReplayOf(c, Len(c.outcomes))
        /\ c.pc = "done" =>
              /\ c.session = "closed"
              /\ c.response = BuildResponse(ReplayOf(c, Len(c.outcomes)))

\* Two requests were in flight together, each has returned, and the
\* responses hold different categories.
C13_Witness ==
    /\ LocalsOf(1).pc = "done" /\ LocalsOf(2).pc = "done"
    /\ LocalsOf(1).response["updates"] # Absent
    /\ LocalsOf(1).response["properties"] = Absent
    /\ LocalsOf(2).response["properties"] # Absent
    /\ LocalsOf(2).response["updates"] = Absent

Hung(r) == LocalsOf(r).pc = "hung"

Finished(r) == LocalsOf(r).pc \in {"done", "planning_error", "error"}

\* C17: a request whose call_tool never ends stays where it is, and once
\* it hangs every other request still comes to its end, unless a call of
\* its own hangs too; a request that went through its loop has a response.
C17_HangStallsOnlyItsRequest ==
    /\ \A r \in Requests :
          (\E h \in Requests \ {r} : Hung(h)) ~> (Finished(r) \/ Hung(r))
    /\ [][\A h \in Requests : Hung(h) => Hung(h)']_vars
    /\ [](\A r \in Requests : LocalsOf(r).pc = "done" => LocalsOf(r).response # Absent)

\* Request 1 hangs in its call, and request 2, resumed after that, has
\* gone through its loop and returned what its call produced.
C17_Witness ==
    /\ Hung(1)
    /\ cur = 2
    /\ pc = "done"
    /\ response # Absent
    /\ response["properties"] # Absent
====
